---- MODULE Spec2Model ----
(***************************************************************************)
(* ModbusClientRTU (eModbus): the request queue, the worker task           *)
(* handleConnection, send(), the receive() state machine and the           *)
(* destructor, as a state machine.                                         *)
(*                                                                         *)
(* Threads: NumProducers caller threads running addRequest(), the worker   *)
(* task, the thread that destroys the client, and the environment (the     *)
(* clock and the serial line).  Every unlocked read of the queue           *)
(* (requests.size(), requests.empty(), requests.front()) is one atomic     *)
(* step that sees the queue either before or after a concurrent locked     *)
(* mutation.                                                               *)
(*                                                                         *)
(* Time: micros() - MR_lastMicros is kept as the elapsed-time counter      *)
(* sinceLast, saturating at MR_interval; millis() - TimeOut as             *)
(* sinceTimeOut, saturating at MR_timeoutValue.  "MR_lastMicros =          *)
(* micros()" is sinceLast' = 0.  One Tick is one unit of both clocks.      *)
(* The bound MR_interval is the inter-frame interval in those units; the   *)
(* value begin() computes for the member, in microseconds, is the variable *)
(* intervalMicros.                                                         *)
(***************************************************************************)
EXTENDS Integers, Sequences, FiniteSets, TLC

---------------------------------------------------------------------------
(* Bounds of the model *)

NumProducers == 2
MaxRequests == 2
MaxFrame == 6
RxFifoSize == 2
MR_qLimit == 1
MR_interval == 2
MR_timeoutValue == 3

---------------------------------------------------------------------------
(* Error codes (enum Error of ModbusTypeDefs.h) *)

SUCCESS == 0
TIMEOUT == 224
CRC_ERROR == 226
FC_MISMATCH == 227
SERVER_ID_MISMATCH == 228
PACKET_LENGTH_ERROR == 229
REQUEST_QUEUE_FULL == 232

(* receive(): block size of the receive buffer *)
BUFBLOCKSIZE == 128

Producers == 1 .. NumProducers
Tokens == 1 .. MaxRequests

Min(a, b) == IF a < b THEN a ELSE b

---------------------------------------------------------------------------
(* CRC engine: RTUCRC::calcCRC, CRC-16/MODBUS (reflected polynomial 0xA001, *)
(* initial value 0xFFFF), bit by bit.                                       *)

(* Bit i of a, and the exclusive or of two 16-bit values.  Each operand is
   bound once (p, c below) so that it is computed once. *)
bit(a, i) == (a \div (2 ^ i)) % 2

Xor(a, b) ==
  CHOOSE r \in
    { ((bit(p[1], 0) + bit(p[2], 0)) % 2)
      + ((bit(p[1], 1) + bit(p[2], 1)) % 2) * 2
      + ((bit(p[1], 2) + bit(p[2], 2)) % 2) * 4
      + ((bit(p[1], 3) + bit(p[2], 3)) % 2) * 8
      + ((bit(p[1], 4) + bit(p[2], 4)) % 2) * 16
      + ((bit(p[1], 5) + bit(p[2], 5)) % 2) * 32
      + ((bit(p[1], 6) + bit(p[2], 6)) % 2) * 64
      + ((bit(p[1], 7) + bit(p[2], 7)) % 2) * 128
      + ((bit(p[1], 8) + bit(p[2], 8)) % 2) * 256
      + ((bit(p[1], 9) + bit(p[2], 9)) % 2) * 512
      + ((bit(p[1], 10) + bit(p[2], 10)) % 2) * 1024
      + ((bit(p[1], 11) + bit(p[2], 11)) % 2) * 2048
      + ((bit(p[1], 12) + bit(p[2], 12)) % 2) * 4096
      + ((bit(p[1], 13) + bit(p[2], 13)) % 2) * 8192
      + ((bit(p[1], 14) + bit(p[2], 14)) % 2) * 16384
      + ((bit(p[1], 15) + bit(p[2], 15)) % 2) * 32768
      : p \in {<<a, b>>} } : TRUE

(* One bit of the CRC: shift right, and apply the polynomial if a 1 fell out *)
crcShift(crc) ==
  CHOOSE r \in
    { IF c % 2 = 1 THEN Xor(c \div 2, 40961) ELSE c \div 2 : c \in {crc} } : TRUE

(* One byte of the CRC: eight shifts *)
crcByte(crc, b) ==
  crcShift(crcShift(crcShift(crcShift(
    crcShift(crcShift(crcShift(crcShift(Xor(crc, b)))))))))

calcCRC(data, len) ==
  LET crc[i \in 0 .. len] ==
        IF i = 0 THEN 65535 ELSE crcByte(crc[i - 1], data[i])
  IN  crc[len]

---------------------------------------------------------------------------
(* Requests and responses *)

(* RTURequest: server id, function code, token (the token also stands for  *)
(* the identity of the allocated object).                                   *)
RTURequest(serverID, functionCode, token) ==
  [serverID |-> serverID, functionCode |-> functionCode, token |-> token]

(* nullptr *)
NoRequest == [serverID |-> 0, functionCode |-> 0, token |-> 0]

(* RTUResponse: the message bytes without CRC, and the CRC value set *)
RTUResponse(msg, crc) == [msg |-> msg, CRC |-> crc]

(* RTUResponse::isValidCRC *)
isValidCRC(r) == r.CRC = calcCRC(r.msg, Len(r.msg))

(* ModbusResponse::getError: the error code byte of a message whose       *)
(* function code has the error bit set, SUCCESS otherwise.                 *)
getError(r) ==
  IF Len(r.msg) > 2 /\ r.msg[2] >= 128 THEN r.msg[3] ELSE SUCCESS

(* The frame a server sends: message, then CRC low byte, then high byte *)
Frame(msg) ==
  LET crc == calcCRC(msg, Len(msg))
  IN  msg \o <<crc % 256, crc \div 256>>

(* The same frame with a corrupted CRC low byte *)
BadFrame(msg) ==
  LET crc == calcCRC(msg, Len(msg))
  IN  msg \o <<((crc % 256) + 1) % 256, crc \div 256>>

---------------------------------------------------------------------------
VARIABLES
  onData,        \* an onData handler is registered
  onError,       \* an onError handler is registered
  baud,          \* MR_serial.baudRate()
  bpc,           \* position of the thread that calls begin()
  intervalMicros, \* the member MR_interval, in microseconds
  requests,      \* the queue (std::queue<RTURequest *>), front first
  qLock,         \* owner of the queue mutex, <<>> when free
  messageCount,  \* counter of ModbusClient
  ppc,           \* per producer: position in addRequest/addToQueue
  preq,          \* per producer: the request it created
  created,       \* number of requests created so far
  returned,      \* what addRequest returned: token, rc, and the queue length
                 \* when the request was turned away or appended
  accepted,      \* tokens in the order they were pushed
  wpc,           \* position of the worker in handleConnection and in
                 \* receive() ("gap": at the gap test of IN_PACKET)
  request,       \* worker: RTURequest *request
  response,      \* worker: RTUResponse *response, <<>> is nullptr
  state,         \* receive(): STATES state
  buffer,        \* receive(): bytes stored in buffer
  bufferPtr,     \* receive(): index into buffer (uint16_t)
  bufferBlocks,  \* receive(): number of blocks allocated (uint8_t)
  truncated,     \* the frame is longer than MaxFrame: bytes beyond are not kept
  errorCode,     \* receive(): Error errorCode
  serialRx,      \* bytes that arrived on the serial line and were not read yet
  sinceLast,     \* micros() - MR_lastMicros, saturating at MR_interval
  sinceTimeOut,  \* millis() - TimeOut, saturating at MR_timeoutValue
  sent,          \* tokens of the requests written to the serial line, in order
  calls,         \* the callbacks invoked, in order
  backlog,       \* history, kept by the specification that logs it: the
                 \* receive FIFO held bytes when the request of the
                 \* transaction in progress was written to the line
  deletes,       \* per token: how often the request object was deleted
  dpc            \* position of the thread that destroys the client

vars == <<onData, onError, baud, bpc, intervalMicros, requests, qLock, messageCount, ppc, preq, created,
          returned, accepted, wpc, request, response, state, buffer, bufferPtr,
          bufferBlocks, truncated, errorCode, serialRx, sinceLast, sinceTimeOut,
          sent, calls, backlog, deletes, dpc>>

prodVars == <<ppc, preq, created, returned, accepted, messageCount>>
rxVars == <<state, buffer, bufferPtr, bufferBlocks, truncated, errorCode>>
logVars == <<sent, calls, backlog>>
cfgVars == <<onData, onError, baud, bpc, intervalMicros>>
envVars == <<serialRx, sinceLast, sinceTimeOut>>

---------------------------------------------------------------------------
(* Constructor, handlers registered or not, begin() *)

(* begin(): MR_interval = 40000000UL / MR_serial.baudRate() *)
baudInterval(b) == 40000000 \div b

(* begin(): if (MR_interval < 1000) MR_interval = 1000 *)
clampInterval(i) == IF i < 1000 THEN 1000 ELSE i

(* The client constructed, its handlers registered or not, begin() done on  *)
(* a line of 9600 baud, the worker task polling.                            *)
Init ==
  /\ onData \in BOOLEAN
  /\ onError \in BOOLEAN
  /\ baud = 9600
  /\ bpc = "done"
  /\ intervalMicros = clampInterval(baudInterval(baud))
  /\ requests = <<>>
  /\ qLock = <<>>
  /\ messageCount = 0
  /\ ppc = [p \in Producers |-> "idle"]
  /\ preq = [p \in Producers |-> NoRequest]
  /\ created = 0
  /\ returned = {}
  /\ accepted = <<>>
  /\ wpc = "poll"
  /\ request = NoRequest
  /\ response = <<>>
  /\ state = "WAIT_INTERVAL"
  /\ buffer = <<>>
  /\ bufferPtr = 0
  /\ bufferBlocks = 1
  /\ truncated = FALSE
  /\ errorCode = SUCCESS
  /\ serialRx = <<>>
  /\ sinceLast = 0
  /\ sinceTimeOut = 0
  /\ sent = <<>>
  /\ calls = <<>>
  /\ backlog = FALSE
  /\ deletes = [t \in Tokens |-> 0]
  /\ dpc = "alive"

---------------------------------------------------------------------------
(* The queue operations *)

(* addToQueue: requests.size() < MR_qLimit *)
hasRoom(size) == size < MR_qLimit

(* addRequest: rc stays SUCCESS when addToQueue returned true, else         *)
(* REQUEST_QUEUE_FULL.  addRequestRc_Inverted tests the wrong way round.    *)
addRequestRc_Inverted(added) == IF added THEN REQUEST_QUEUE_FULL ELSE SUCCESS
addRequestRc(added) == IF added THEN SUCCESS ELSE REQUEST_QUEUE_FULL

(* requests.push(request).  push_Front puts the request ahead of the others. *)
push_Front(q, r) == <<r>> \o q
push(q, r) == Append(q, r)

(* requests.front().  front_Back takes the newest entry. *)
front_Back(q) == q[Len(q)]
front(q) == Head(q)

(* requests.pop().  pop_Nothing leaves the entry in the queue. *)
pop_Nothing(q) == q
pop(q) == Tail(q)

(* lock_guard<mutex> lockGuard(qLock): the mutex can be taken when free *)
Free == <<>>
ProducerThread(p) == <<"producer", p>>
WorkerThread == <<"worker">>

---------------------------------------------------------------------------
(* addRequest(serverID, functionCode, token) on caller thread p            *)

(* createRTURequest builds a valid request; addToQueue reads the queue size *)
(* without the lock.  Full: messageCount++, addToQueue returns false, and   *)
(* addRequest deletes the request and returns REQUEST_QUEUE_FULL.  Room:    *)
(* rc = true and the thread goes on to take the lock.                       *)
AddRequest(p, serverID, functionCode) ==
  /\ ppc[p] = "idle"
  /\ dpc = "alive"
  /\ created < MaxRequests
  /\ created' = created + 1
  /\ LET r == RTURequest(serverID, functionCode, created + 1)
     IN  IF hasRoom(Len(requests))
         THEN /\ ppc' = [ppc EXCEPT ![p] = "lock"]
              /\ preq' = [preq EXCEPT ![p] = r]
              /\ UNCHANGED <<messageCount, returned, deletes>>
         ELSE /\ messageCount' = messageCount + 1
              /\ returned' = returned \cup
                   {[token |-> r.token, rc |-> addRequestRc(FALSE),
                     size |-> Len(requests)]}
              /\ deletes' = [deletes EXCEPT ![r.token] = @ + 1]
              /\ UNCHANGED <<ppc, preq>>
  /\ UNCHANGED <<cfgVars, requests, qLock, accepted, wpc, request, response,
                 rxVars, envVars, logVars, dpc>>

(* addToQueue: lock_guard<mutex> lockGuard(qLock) *)
AddToQueue_Lock(p) ==
  /\ ppc[p] = "lock"
  /\ qLock = Free
  /\ qLock' = ProducerThread(p)
  /\ ppc' = [ppc EXCEPT ![p] = "push"]
  /\ UNCHANGED <<cfgVars, requests, messageCount, preq, created, returned,
                 accepted, wpc, request, response, rxVars, envVars, logVars,
                 deletes, dpc>>

(* addToQueue: requests.push(request), the lock guard ends, messageCount++, *)
(* addToQueue returns true and addRequest returns SUCCESS.                   *)
AddToQueue_Push(p) ==
  /\ ppc[p] = "push"
  /\ requests' = push(requests, preq[p])
  /\ accepted' = Append(accepted, preq[p].token)
  /\ qLock' = Free
  /\ messageCount' = messageCount + 1
  /\ returned' = returned \cup
       {[token |-> preq[p].token, rc |-> addRequestRc(TRUE),
         size |-> Len(requests)]}
  /\ ppc' = [ppc EXCEPT ![p] = "idle"]
  /\ preq' = [preq EXCEPT ![p] = NoRequest]
  /\ UNCHANGED <<cfgVars, created, wpc, request, response, rxVars, envVars,
                 logVars, deletes, dpc>>

---------------------------------------------------------------------------
(* handleConnection: the worker task                                        *)

(* if (!requests.empty()) request = requests.front(): both read without     *)
(* the lock.  With an empty queue the task delays and polls again.          *)
W_Poll ==
  /\ wpc = "poll"
  /\ requests # <<>>
  /\ request' = front(requests)
  /\ wpc' = "send"
  /\ UNCHANGED <<cfgVars, requests, qLock, prodVars, response, rxVars, envVars,
                 logVars, deletes, dpc>>

(* send(): the bus has been quiet for MR_interval.  quiet_Short is content  *)
(* with one unit of time less.                                              *)
quiet_Short(elapsed) == elapsed + 1 >= MR_interval
quiet(elapsed) == elapsed >= MR_interval

(* send(request): wait until the bus was quiet for MR_interval, write the   *)
(* message and its CRC, flush, MR_lastMicros = micros().  Then the locals   *)
(* of receive() are set up: one buffer block, bufferPtr 0, WAIT_INTERVAL,   *)
(* TimeOut = millis(), errorCode SUCCESS, response nullptr.  Nothing is     *)
(* done to the receive FIFO.                                                *)
Send ==
  /\ wpc = "send"
  /\ quiet(sinceLast)
  /\ sent' = Append(sent, request.token)
  /\ sinceLast' = 0
  /\ wpc' = "receive"
  /\ state' = "WAIT_INTERVAL"
  /\ buffer' = <<>>
  /\ bufferPtr' = 0
  /\ bufferBlocks' = 1
  /\ truncated' = FALSE
  /\ errorCode' = SUCCESS
  /\ response' = <<>>
  /\ sinceTimeOut' = 0
  /\ UNCHANGED <<cfgVars, requests, qLock, prodVars, request, serialRx, calls,
                 deletes, dpc>>

(* instance->send(request) *)
W_Send == Send /\ UNCHANGED backlog

(* instance->send(request), and the history notes whether bytes were        *)
(* waiting in the receive FIFO.                                             *)
W_SendLogged == Send /\ backlog' = (serialRx # <<>>)

---------------------------------------------------------------------------
(* receive(request): the state machine, one action per state                *)

(* WAIT_INTERVAL: on to WAIT_DATA once MR_interval has passed, else wait    *)
R_WaitInterval ==
  /\ wpc = "receive"
  /\ state = "WAIT_INTERVAL"
  /\ quiet(sinceLast)
  /\ state' = "WAIT_DATA"
  /\ UNCHANGED <<cfgVars, requests, qLock, prodVars, wpc, request, response,
                 buffer, bufferPtr, bufferBlocks, truncated, errorCode, envVars,
                 logVars, deletes, dpc>>

(* WAIT_DATA: millis() - TimeOut >= MR_timeoutValue.  timedOut_Early gives *)
(* up one unit of time too soon.                                            *)
timedOut_Early(waited) == waited + 1 >= MR_timeoutValue
timedOut(waited) == waited >= MR_timeoutValue

(* WAIT_DATA: a byte is available: IN_PACKET, MR_lastMicros = micros();     *)
(* else, when the timeout has passed: errorCode TIMEOUT, ERROR_EXIT.        *)
R_WaitData ==
  /\ wpc = "receive"
  /\ state = "WAIT_DATA"
  /\ IF serialRx # <<>>
     THEN /\ state' = "IN_PACKET"
          /\ sinceLast' = 0
          /\ UNCHANGED errorCode
     ELSE /\ timedOut(sinceTimeOut)
          /\ errorCode' = TIMEOUT
          /\ state' = "ERROR_EXIT"
          /\ UNCHANGED sinceLast
  /\ UNCHANGED <<cfgVars, requests, qLock, prodVars, wpc, request, response,
                 buffer, bufferPtr, bufferBlocks, truncated, serialRx,
                 sinceTimeOut, logVars, deletes, dpc>>

(* IN_PACKET, while (MR_serial.available()): buffer[bufferPtr++] = read();  *)
(* a full buffer is extended by one block; MR_lastMicros = micros().        *)
(* Of a frame longer than MaxFrame the model keeps the first MaxFrame bytes. *)
R_InPacket_Read ==
  /\ wpc = "receive"
  /\ state = "IN_PACKET"
  /\ serialRx # <<>>
  /\ serialRx' = Tail(serialRx)
  /\ IF bufferPtr < MaxFrame
     THEN /\ buffer' = Append(buffer, Head(serialRx))
          /\ bufferPtr' = (bufferPtr + 1) % 65536
          /\ bufferBlocks' = IF bufferPtr' >= bufferBlocks * BUFBLOCKSIZE
                             THEN (bufferBlocks + 1) % 256
                             ELSE bufferBlocks
          /\ UNCHANGED truncated
     ELSE /\ truncated' = TRUE
          /\ UNCHANGED <<buffer, bufferPtr, bufferBlocks>>
  /\ sinceLast' = 0
  /\ UNCHANGED <<cfgVars, requests, qLock, prodVars, wpc, request, response,
                 state, errorCode, sinceTimeOut, logVars, deletes, dpc>>

(* IN_PACKET, while (MR_serial.available()) finds no byte: the loop ends and *)
(* the worker is at the test of the gap.                                    *)
R_InPacket_Drained ==
  /\ wpc = "receive"
  /\ state = "IN_PACKET"
  /\ serialRx = <<>>
  /\ wpc' = "gap"
  /\ UNCHANGED <<cfgVars, requests, qLock, prodVars, request, response, rxVars,
                 envVars, logVars, deletes, dpc>>

(* IN_PACKET, if (micros() - MR_lastMicros >= MR_interval) state =          *)
(* DATA_READ; break: a gap of MR_interval since the last byte read ends the *)
(* frame, else the state machine goes round again.                          *)
R_InPacket_Gap ==
  /\ wpc = "gap"
  /\ state' = IF quiet(sinceLast) THEN "DATA_READ" ELSE state
  /\ wpc' = "receive"
  /\ UNCHANGED <<cfgVars, requests, qLock, prodVars, request, response,
                 buffer, bufferPtr, bufferBlocks, truncated, errorCode, envVars,
                 logVars, deletes, dpc>>

(* DATA_READ: did we get a sensible buffer length?  sensibleLength_Short   *)
(* lets a frame of four bytes through.                                      *)
sensibleLength_Short(n) == n >= 4
sensibleLength(n) == n >= 5

(* DATA_READ: the response without CRC, and the CRC from the last two bytes *)
gathered(buf, n) ==
  RTUResponse(SubSeq(buf, 1, n - 2), buf[n - 1] + 256 * buf[n])

(* DATA_READ: the checks of a response, in their order: CRC, server id,     *)
(* function code without the error bit.  checkResponse_IdFirst looks at the *)
(* server id before the CRC.                                                *)
checkResponse_IdFirst(crcOK, resp, req) ==
  IF resp.msg[1] # req.serverID THEN SERVER_ID_MISMATCH
  ELSE IF ~crcOK THEN CRC_ERROR
  ELSE IF (resp.msg[2] % 128) # req.functionCode THEN FC_MISMATCH
  ELSE SUCCESS
checkResponse(crcOK, resp, req) ==
  IF ~crcOK THEN CRC_ERROR
  ELSE IF resp.msg[1] # req.serverID THEN SERVER_ID_MISMATCH
  ELSE IF (resp.msg[2] % 128) # req.functionCode THEN FC_MISMATCH
  ELSE SUCCESS

(* DATA_READ.  The CRC of a frame the model truncated is valid or not.      *)
R_DataRead ==
  /\ wpc = "receive"
  /\ state = "DATA_READ"
  /\ IF sensibleLength(bufferPtr)
     THEN LET resp == gathered(buffer, bufferPtr)
          IN  \E crcOK \in (IF truncated THEN BOOLEAN ELSE {isValidCRC(resp)}) :
                LET err == checkResponse(crcOK, resp, request)
                IN  IF err = SUCCESS
                    THEN /\ response' = <<resp>>
                         /\ state' = "FINISHED"
                         /\ UNCHANGED errorCode
                    ELSE /\ response' = <<>>
                         /\ errorCode' = err
                         /\ state' = "ERROR_EXIT"
     ELSE /\ errorCode' = PACKET_LENGTH_ERROR
          /\ state' = "ERROR_EXIT"
          /\ UNCHANGED response
  /\ UNCHANGED <<cfgVars, requests, qLock, prodVars, wpc, request, buffer,
                 bufferPtr, bufferBlocks, truncated, envVars, logVars, deletes,
                 dpc>>

(* ERROR_EXIT: the error response: server id, function code | 0x80, error.  *)
(* errorResponse_NoErrorBit leaves the function code as it is.              *)
errorResponse_NoErrorBit(req, err) ==
  LET msg == <<req.serverID, req.functionCode, err>>
  IN  RTUResponse(msg, calcCRC(msg, 3))
errorResponse(req, err) ==
  LET msg == <<req.serverID, (req.functionCode % 128) + 128, err>>
  IN  RTUResponse(msg, calcCRC(msg, 3))

R_ErrorExit ==
  /\ wpc = "receive"
  /\ state = "ERROR_EXIT"
  /\ response' = <<errorResponse(request, errorCode)>>
  /\ state' = "FINISHED"
  /\ UNCHANGED <<cfgVars, requests, qLock, prodVars, wpc, request, buffer,
                 bufferPtr, bufferBlocks, truncated, errorCode, envVars,
                 logVars, deletes, dpc>>

(* FINISHED: the loop ends, delete[] buffer, MR_lastMicros = micros(),      *)
(* return response.  The locals of receive() are gone.                      *)
R_Return ==
  /\ wpc = "receive"
  /\ state = "FINISHED"
  /\ sinceLast' = 0
  /\ sinceTimeOut' = 0
  /\ wpc' = "deliver"
  /\ state' = "WAIT_INTERVAL"
  /\ buffer' = <<>>
  /\ bufferPtr' = 0
  /\ bufferBlocks' = 1
  /\ truncated' = FALSE
  /\ errorCode' = SUCCESS
  /\ UNCHANGED <<cfgVars, requests, qLock, prodVars, request, response,
                 serialRx, logVars, deletes, dpc>>

---------------------------------------------------------------------------
(* handleConnection, after receive()                                        *)

(* One callback invocation.  alive: the request object had not been deleted *)
(* when its token was read; nsent: the requests sent so far.                *)
(* Call_FirstToken passes the token of the first request sent.              *)
Call_FirstToken(fn, err, resp, req) ==
  [fn |-> fn, err |-> err, token |-> sent[1],
   serverID |-> resp.msg[1], functionCode |-> resp.msg[2],
   data |-> resp.msg, len |-> Len(resp.msg),
   alive |-> (deletes[req.token] = 0), nsent |-> Len(sent)]
Call(fn, err, resp, req) ==
  [fn |-> fn, err |-> err, token |-> req.token,
   serverID |-> resp.msg[1], functionCode |-> resp.msg[2],
   data |-> resp.msg, len |-> Len(resp.msg),
   alive |-> (deletes[req.token] = 0), nsent |-> Len(sent)]

(* response->getError() == SUCCESS: onData, if a handler is registered;     *)
(* else onError, if a handler is registered.                                *)
W_Deliver ==
  /\ wpc = "deliver"
  /\ LET resp == response[1]
     IN  IF getError(resp) = SUCCESS
         THEN IF onData
              THEN calls' = Append(calls, Call("onData", SUCCESS, resp, request))
              ELSE UNCHANGED calls
         ELSE IF onError
              THEN calls' = Append(calls, Call("onError", getError(resp), resp, request))
              ELSE UNCHANGED calls
  /\ backlog' = FALSE
  /\ wpc' = "lock"
  /\ UNCHANGED <<cfgVars, requests, qLock, prodVars, request, response, rxVars,
                 envVars, sent, deletes, dpc>>

(* lock_guard<mutex> lockGuard(instance->qLock).  W_Lock_NotTaken goes on   *)
(* to the pop without the mutex.                                            *)
W_Lock_NotTaken ==
  /\ wpc = "lock"
  /\ wpc' = "pop"
  /\ UNCHANGED <<cfgVars, requests, qLock, prodVars, request, response, rxVars,
                 envVars, logVars, deletes, dpc>>
W_Lock ==
  /\ wpc = "lock"
  /\ qLock = Free
  /\ qLock' = WorkerThread
  /\ wpc' = "pop"
  /\ UNCHANGED <<cfgVars, requests, prodVars, request, response, rxVars,
                 envVars, logVars, deletes, dpc>>

(* requests.pop(), the lock guard ends.  pop() on an empty queue is         *)
(* undefined: the task is then in no defined position.                      *)
W_Pop ==
  /\ wpc = "pop"
  /\ qLock' = Free
  /\ IF requests # <<>>
     THEN /\ requests' = pop(requests)
          /\ wpc' = "delete"
     ELSE /\ wpc' = "undefined"
          /\ UNCHANGED requests
  /\ UNCHANGED <<cfgVars, prodVars, request, response, rxVars, envVars,
                 logVars, deletes, dpc>>

(* delete request; delete response; and around the loop.  W_Delete_Halts    *)
(* leaves the loop after an error.                                          *)
W_Delete_Halts ==
  /\ wpc = "delete"
  /\ deletes' = [deletes EXCEPT ![request.token] = @ + 1]
  /\ request' = NoRequest
  /\ response' = <<>>
  /\ wpc' = IF getError(response[1]) = SUCCESS THEN "poll" ELSE "halted"
  /\ UNCHANGED <<cfgVars, requests, qLock, prodVars, rxVars, envVars, logVars,
                 dpc>>
W_Delete ==
  /\ wpc = "delete"
  /\ deletes' = [deletes EXCEPT ![request.token] = @ + 1]
  /\ request' = NoRequest
  /\ response' = <<>>
  /\ wpc' = "poll"
  /\ UNCHANGED <<cfgVars, requests, qLock, prodVars, rxVars, envVars, logVars,
                 dpc>>

---------------------------------------------------------------------------
(* ~ModbusClientRTU, on the thread that owns the client.  No caller is      *)
(* inside addRequest when the client is destroyed.                          *)

DestructorThread == <<"destructor">>

(* lock_guard<mutex> lockGuard(qLock) *)
D_Lock ==
  /\ dpc = "alive"
  /\ \A p \in Producers : ppc[p] = "idle"
  /\ qLock = Free
  /\ qLock' = DestructorThread
  /\ dpc' = "drain"
  /\ UNCHANGED <<cfgVars, requests, prodVars, wpc, request, response, rxVars,
                 envVars, logVars, deletes>>

(* while (!requests.empty()): r = requests.front(); delete r; requests.pop() *)
D_Drain ==
  /\ dpc = "drain"
  /\ requests # <<>>
  /\ deletes' = [deletes EXCEPT ![front(requests).token] = @ + 1]
  /\ requests' = pop(requests)
  /\ UNCHANGED <<cfgVars, qLock, prodVars, wpc, request, response, rxVars,
                 envVars, logVars, dpc>>

(* the queue is empty: the lock guard ends *)
D_Unlock ==
  /\ dpc = "drain"
  /\ requests = <<>>
  /\ qLock' = Free
  /\ dpc' = "kill"
  /\ UNCHANGED <<cfgVars, requests, prodVars, wpc, request, response, rxVars,
                 envVars, logVars, deletes>>

(* vTaskDelete(worker): the task runs no more, wherever it was *)
D_Kill ==
  /\ dpc = "kill"
  /\ wpc' = "deleted"
  /\ dpc' = "done"
  /\ UNCHANGED <<cfgVars, requests, qLock, prodVars, request, response, rxVars,
                 envVars, logVars, deletes>>

---------------------------------------------------------------------------
(* The environment: the clock and the serial line                           *)

(* One unit of time passes.  TimeOut is a local of receive(): its clock     *)
(* runs while receive() runs.                                               *)
Tick ==
  /\ \/ sinceLast < MR_interval
     \/ wpc \in {"receive", "gap"} /\ sinceTimeOut < MR_timeoutValue
  /\ sinceLast' = Min(sinceLast + 1, MR_interval)
  /\ sinceTimeOut' = IF wpc \in {"receive", "gap"}
                     THEN Min(sinceTimeOut + 1, MR_timeoutValue)
                     ELSE sinceTimeOut
  /\ UNCHANGED <<cfgVars, requests, qLock, prodVars, wpc, request, response,
                 rxVars, serialRx, logVars, deletes, dpc>>

(* What is on the line of the current burst: read into buffer or waiting *)
line == buffer \o serialRx

(* The bytes the line can carry next: the next byte of a frame of F that    *)
(* the burst so far begins.                                                 *)
NextBytes(F) ==
  {f[Len(line) + 1] :
     f \in {g \in F : Len(g) > Len(line) /\ SubSeq(g, 1, Len(line)) = line}}

(* Noise: a run of zero bytes of any length *)
NoiseBytes ==
  IF \A i \in 1 .. Len(line) : line[i] = 0 THEN {0} ELSE {}

(* A byte of B arrives in the receive FIFO of the UART *)
BusByte(B) ==
  /\ Len(serialRx) < RxFifoSize
  /\ \E b \in B : serialRx' = Append(serialRx, b)
  /\ UNCHANGED <<cfgVars, requests, qLock, prodVars, wpc, request, response,
                 rxVars, sinceLast, sinceTimeOut, logVars, deletes, dpc>>

---------------------------------------------------------------------------
(* Specifications                                                           *)

(* The steps of the worker other than the send *)
Transact ==
  \/ W_Poll
  \/ R_WaitInterval \/ R_WaitData \/ R_InPacket_Read \/ R_InPacket_Drained
  \/ R_InPacket_Gap
  \/ R_DataRead \/ R_ErrorExit \/ R_Return
  \/ W_Deliver \/ W_Lock \/ W_Pop \/ W_Delete

Worker == W_Send \/ Transact

(* The running client: callers on several threads submit requests to       *)
(* server 1, function code 7, whose reply may be damaged, cut or missing.   *)
QueueFrames == {Frame(<<1, 7, 5>>), BadFrame(<<1, 7, 5>>)}

Submit == \E p \in Producers : AddRequest(p, 1, 7)
Lock == \E p \in Producers : AddToQueue_Lock(p)
Push == \E p \in Producers : AddToQueue_Push(p)
Bus == BusByte(NextBytes(QueueFrames))

Next ==
  \/ Submit \/ Lock \/ Push
  \/ Worker
  \/ Tick
  \/ Bus

Spec == Init /\ [][Next]_vars

(* One transaction at a time, any request, and a line that carries replies  *)
(* of either server with either function code or an exception, of 5 or 6    *)
(* bytes, with a good or a bad CRC, cut anywhere, or noise.                 *)
RxServerIDs == {1, 2}
RxFunctionCodes == {7, 11}
RxMessages ==
  {<<s, f, 5>> : s \in RxServerIDs, f \in RxFunctionCodes \cup {135}}
    \cup {<<s, f, 5, 5>> : s \in RxServerIDs, f \in RxFunctionCodes}
RxFrames == {Frame(m) : m \in RxMessages} \cup {BadFrame(m) : m \in RxMessages}

RxSubmit ==
  /\ created = 0
  /\ \E s \in RxServerIDs, f \in RxFunctionCodes : AddRequest(1, s, f)
RxLock == AddToQueue_Lock(1)
RxPush == AddToQueue_Push(1)
RxBus == BusByte(NextBytes(RxFrames) \cup NoiseBytes)

NextRx ==
  \/ RxSubmit \/ RxLock \/ RxPush
  \/ Worker
  \/ Tick
  \/ RxBus

SpecRx == Init /\ [][NextRx]_vars

(* The client's whole life: as Spec, and the client is destroyed at some   *)
(* moment, whatever the worker is doing then.                               *)
NextLife ==
  \/ Submit \/ Lock \/ Push
  \/ Worker
  \/ Tick
  \/ Bus
  \/ D_Lock \/ D_Drain \/ D_Unlock \/ D_Kill

SpecLife == Init /\ [][NextLife]_vars

(* As SpecRx, with time advancing and the worker task scheduled again and   *)
(* again (a FreeRTOS task of priority 6 that only ever delays).             *)
FairSpecRx == SpecRx /\ WF_vars(Worker) /\ WF_vars(Tick)

(* One caller thread submitting request after request to server 1, function *)
(* code 7, and the worker.                                                  *)
SeqSubmit == AddRequest(1, 1, 7)
SeqLock == AddToQueue_Lock(1)
SeqPush == AddToQueue_Push(1)

NextSeq ==
  \/ SeqSubmit \/ SeqLock \/ SeqPush
  \/ Worker
  \/ Tick
  \/ Bus

SpecSeq == Init /\ [][NextSeq]_vars

(* As SpecSeq, with time advancing, the worker task scheduled again and     *)
(* again, and the caller that holds qLock in addToQueue going on to its     *)
(* push.                                                                    *)
FairSpecSeq ==
  SpecSeq /\ WF_vars(Worker) /\ WF_vars(Tick) /\ WF_vars(SeqPush)

(* As SpecSeq, and the client is destroyed at some moment *)
NextLifeSeq ==
  \/ SeqSubmit \/ SeqLock \/ SeqPush
  \/ Worker
  \/ Tick
  \/ Bus
  \/ D_Lock \/ D_Drain \/ D_Unlock \/ D_Kill

SpecLifeSeq == Init /\ [][NextLifeSeq]_vars

---------------------------------------------------------------------------
(* Notions the properties use                                               *)

Range(q) == {q[i] : i \in 1 .. Len(q)}

(* The callbacks invoked with token t *)
CallsOf(t) == {i \in 1 .. Len(calls) : calls[i].token = t}
NCalls(t) == Cardinality(CallsOf(t))

(* The worker holds t: it took t from the queue and has not deleted it yet *)
InFlight(t) == request.token = t

(* The worker has sent t and is past the callback of t's transaction *)
Delivered(t) ==
  /\ t \in Range(sent)
  /\ ~(InFlight(t) /\ wpc \in {"receive", "gap", "deliver"})

(* The worker is between the callback and the deletion of its request *)
AfterCallback == wpc \in {"lock", "pop", "delete"}

(* The handler that the response the worker holds goes to is registered *)
HandlerRegistered ==
  IF getError(response[1]) = SUCCESS THEN onData ELSE onError

---------------------------------------------------------------------------
(* C1 *)

(* C1 as stated: every request the worker has dealt with got exactly one    *)
(* callback, and no request ever got two.                                   *)
C1_ExactlyOnce ==
  \A t \in Tokens :
    /\ NCalls(t) <= 1
    /\ Delivered(t) => NCalls(t) = 1

(* C1, amended: no request ever gets two callbacks, only requests that were *)
(* sent get one, and a request the worker has dealt with got exactly one    *)
(* callback when the handler its outcome goes to (onData for success,       *)
(* onError for an error) is registered, and none when it is not.            *)
C1_ExactlyOnceIfRegistered ==
  /\ \A t \in Tokens :
       /\ NCalls(t) <= 1
       /\ NCalls(t) = 1 => t \in Range(sent) /\ t \in Range(accepted)
       /\ (Delivered(t) /\ onData /\ onError) => NCalls(t) = 1
  /\ AfterCallback =>
       NCalls(request.token) = (IF HandlerRegistered THEN 1 ELSE 0)

(* Two requests were dealt with, one answered and one not, each with its    *)
(* one callback.                                                            *)
C1_Witness ==
  /\ wpc = "poll"
  /\ Len(sent) = 2
  /\ Len(calls) = 2
  /\ calls[1].token # calls[2].token
  /\ calls[1].fn # calls[2].fn

---------------------------------------------------------------------------
(* C2 *)

(* C2: requests are sent in the order they were accepted, every callback is *)
(* that of the request sent last (so it comes before any later request is   *)
(* sent), and callbacks come in the order of acceptance.                    *)
C2_Fifo ==
  /\ Len(sent) <= Len(accepted)
  /\ sent = SubSeq(accepted, 1, Len(sent))
  /\ \A i \in 1 .. Len(calls) :
       /\ calls[i].nsent \in 1 .. Len(sent)
       /\ calls[i].token = accepted[calls[i].nsent]
  /\ \A i, j \in 1 .. Len(calls) : i < j => calls[i].nsent < calls[j].nsent

(* Two requests of different threads were in the queue together, accepted   *)
(* in the other order than they were created, and both were dealt with.     *)
C2_Witness ==
  /\ accepted = <<2, 1>>
  /\ sent = <<2, 1>>
  /\ Len(calls) = 2
  /\ \E r \in returned : r.token = 1 /\ r.size = 1

---------------------------------------------------------------------------
(* C3 *)

(* C3: addRequest returned REQUEST_QUEUE_FULL exactly for the submissions   *)
(* that met a queue of at least MR_qLimit entries (when the request was     *)
(* turned away, or else when it was appended).                              *)
C3_FullIffAtLimit ==
  \A r \in returned :
    /\ r.rc \in {SUCCESS, REQUEST_QUEUE_FULL}
    /\ r.rc = REQUEST_QUEUE_FULL <=> r.size >= MR_qLimit

---------------------------------------------------------------------------
(* C4 *)

(* C4: the queue never holds more than MR_qLimit requests, and nothing is   *)
(* written to the line for a request that was turned away.                  *)
C4_Bounded ==
  /\ Len(requests) <= MR_qLimit
  /\ \A r \in returned : r.rc = REQUEST_QUEUE_FULL => r.token \notin Range(sent)

---------------------------------------------------------------------------
(* C5 *)

(* C5 as stated: a submission turned away with REQUEST_QUEUE_FULL has had   *)
(* onError(REQUEST_QUEUE_FULL, token) called by the time addRequest returns *)
(* (given a registered onError handler).                                    *)
C5_OnErrorAtSubmit ==
  \A r \in returned :
    (r.rc = REQUEST_QUEUE_FULL /\ onError) =>
      \E i \in CallsOf(r.token) :
        calls[i].fn = "onError" /\ calls[i].err = REQUEST_QUEUE_FULL

(* C5, amended: a submission turned away gets REQUEST_QUEUE_FULL as the     *)
(* return value of addRequest and nothing else: no callback is ever invoked *)
(* for it, it is never queued or sent, its request object is deleted at     *)
(* once, and no callback ever carries REQUEST_QUEUE_FULL.                   *)
C5_QueueFullIsReturnedOnly ==
  /\ \A r \in returned :
       r.rc = REQUEST_QUEUE_FULL =>
         /\ NCalls(r.token) = 0
         /\ r.token \notin Range(accepted)
         /\ r.token \notin Range(sent)
         /\ deletes[r.token] = 1
  /\ \A i \in 1 .. Len(calls) : calls[i].err # REQUEST_QUEUE_FULL

(* A submission was turned away, an onError handler is registered, and the  *)
(* worker has invoked it for another request since.                         *)
C5_Witness ==
  /\ onError
  /\ \E r \in returned : r.rc = REQUEST_QUEUE_FULL /\ r.token = 2
  /\ \E i \in 1 .. Len(calls) : calls[i].fn = "onError"
  /\ wpc = "poll"

---------------------------------------------------------------------------
(* C6 *)

(* C6: once the worker has sent a request and is in receive(), it           *)
(* eventually is past the callback for it.                                  *)
C6_EventuallyDelivered == (wpc = "receive") ~> AfterCallback

---------------------------------------------------------------------------
(* C7 *)

(* The queue does not hold the request with token t *)
NotQueued(t) == \A k \in 1 .. Len(requests) : requests[k].token # t

(* receive() gives up with TIMEOUT only out of WAIT_DATA, with no byte      *)
(* received and the timeout over; it leaves WAIT_DATA for IN_PACKET when a  *)
(* byte is there and else, the timeout over, for ERROR_EXIT with TIMEOUT;   *)
(* and a request the worker has popped is not in the queue.                 *)
C7_TimeoutInReceive ==
  /\ (wpc = "receive" /\ errorCode = TIMEOUT) =>
       /\ state \in {"ERROR_EXIT", "FINISHED"}
       /\ bufferPtr = 0
       /\ buffer = <<>>
       /\ sinceTimeOut >= MR_timeoutValue
  /\ (wpc = "receive" /\ state \in {"IN_PACKET", "DATA_READ"}) =>
       errorCode # TIMEOUT
  /\ (wpc = "receive" /\ state = "FINISHED" /\ errorCode = TIMEOUT) =>
       response = <<errorResponse(request, TIMEOUT)>>
  /\ (wpc = "delete") => NotQueued(request.token)
  /\ \A t \in Tokens : (Delivered(t) /\ ~InFlight(t)) => NotQueued(t)

(* The worker holds the response of a transaction that timed out *)
HoldsTimeout == AfterCallback /\ getError(response[1]) = TIMEOUT

---------------------------------------------------------------------------
(* C8, C9 *)

(* receive() has judged the frame in buffer: it is in ERROR_EXIT, or in     *)
(* FINISHED before it returns.  A frame has been received if the judgement  *)
(* is not TIMEOUT.                                                          *)
Judged == wpc = "receive" /\ state \in {"ERROR_EXIT", "FINISHED"}
FrameJudged == Judged /\ errorCode # TIMEOUT /\ ~truncated

(* The frame in buffer: message, CRC value at its end, and the three checks *)
FrameMsg == SubSeq(buffer, 1, bufferPtr - 2)
FrameCrc == buffer[bufferPtr - 1] + 256 * buffer[bufferPtr]
CrcOk == FrameCrc = calcCRC(FrameMsg, bufferPtr - 2)
IdOk == buffer[1] = request.serverID
FcOk == buffer[2] % 128 = request.functionCode

(* C8: of a frame of at least 5 bytes the first failing check of CRC,       *)
(* server id, function code without the error bit decides the error; a      *)
(* frame passing all three is the response, with no error; and onData is    *)
(* never called with a server id or function code that is not the           *)
(* request's.                                                               *)
C8_FirstFailingCheck ==
  /\ (FrameJudged /\ bufferPtr >= 5) =>
       /\ ~CrcOk => errorCode = CRC_ERROR
       /\ (CrcOk /\ ~IdOk) => errorCode = SERVER_ID_MISMATCH
       /\ (CrcOk /\ IdOk /\ ~FcOk) => errorCode = FC_MISMATCH
       /\ (CrcOk /\ IdOk /\ FcOk) =>
            /\ errorCode = SUCCESS
            /\ state = "FINISHED"
            /\ response = <<RTUResponse(FrameMsg, FrameCrc)>>
       /\ errorCode # SUCCESS =>
            (state = "FINISHED" =>
               response = <<errorResponse(request, errorCode)>>)
  /\ AfterCallback =>
       \A i \in CallsOf(request.token) :
         calls[i].fn = "onData" =>
           /\ calls[i].serverID = request.serverID
           /\ calls[i].functionCode % 128 = request.functionCode

(* A frame with a bad CRC and another server's id: CRC_ERROR *)
C8_Witness ==
  /\ FrameJudged
  /\ bufferPtr >= 5
  /\ ~CrcOk /\ ~IdOk
  /\ errorCode = CRC_ERROR

(* C9: a frame of 1 to 4 bytes is judged PACKET_LENGTH_ERROR whatever its   *)
(* bytes; a frame of exactly 5 bytes with a valid CRC, the request's server *)
(* id and the request's function code is the response, with no error, and   *)
(* goes to onData.                                                          *)
C9_MinimumLength ==
  /\ (FrameJudged /\ bufferPtr < 5) =>
       /\ bufferPtr >= 1
       /\ errorCode = PACKET_LENGTH_ERROR
  /\ (FrameJudged /\ bufferPtr = 5 /\ CrcOk /\ IdOk
        /\ buffer[2] = request.functionCode) =>
       /\ errorCode = SUCCESS
       /\ state = "FINISHED"
       /\ response = <<RTUResponse(FrameMsg, FrameCrc)>>
       /\ getError(response[1]) = SUCCESS
  /\ AfterCallback =>
       \A i \in CallsOf(request.token) :
         /\ calls[i].err = getError(response[1])
         /\ calls[i].fn = "onData" <=> calls[i].err = SUCCESS

(* Four bytes of a reply that is right in every byte: PACKET_LENGTH_ERROR *)
C9_Witness ==
  /\ FrameJudged
  /\ bufferPtr = 4
  /\ IdOk /\ FcOk
  /\ buffer = SubSeq(Frame(<<request.serverID, request.functionCode, 5>>), 1, 4)
  /\ errorCode = PACKET_LENGTH_ERROR

---------------------------------------------------------------------------
(* C10 *)

(* C10: once the destructor is past its loop the queue is empty and every   *)
(* request that was accepted has been deleted or is the one the worker      *)
(* still holds; and no callback is ever invoked for a request that has      *)
(* been deleted.                                                            *)
C10_DrainedSilently ==
  /\ dpc \in {"kill", "done"} =>
       /\ requests = <<>>
       /\ \A t \in Range(accepted) : deletes[t] >= 1 \/ InFlight(t)
  /\ \A i \in 1 .. Len(calls) : calls[i].alive

---------------------------------------------------------------------------
(* C11 *)

(* A step that changes the queue is taken by the thread that holds qLock:   *)
(* the push of a producer in addToQueue, the pop of the worker, the pops of *)
(* the destructor.                                                          *)
MutatesUnderLock ==
  requests' # requests =>
    \/ \E p \in Producers :
         /\ qLock = ProducerThread(p)
         /\ ppc[p] = "push"
         /\ requests' = Append(requests, preq[p])
    \/ /\ qLock = WorkerThread
       /\ wpc = "pop"
       /\ requests' = Tail(requests)
    \/ /\ qLock = DestructorThread
       /\ dpc = "drain"
       /\ requests' = Tail(requests)

(* The worker holds qLock at its pop and nowhere else: not while it sends,  *)
(* receives or runs a callback (a task deleted at its pop keeps the mutex); *)
(* a producer holds it at its push only, the destructor while it drains     *)
(* only.                                                                    *)
HeldForPushOrPopOnly ==
  /\ wpc = "pop" => qLock = WorkerThread
  /\ qLock = WorkerThread => wpc \in {"pop", "deleted"}
  /\ \A p \in Producers : qLock = ProducerThread(p) <=> ppc[p] = "push"
  /\ qLock = DestructorThread <=> dpc = "drain"

(* C11: every mutation of the request queue is made holding qLock, and the  *)
(* worker never holds qLock while it sends, receives or runs a callback.    *)
C11_LockDiscipline == [](HeldForPushOrPopOnly) /\ [][MutatesUnderLock]_vars

(* The worker holds the lock for its pop, the request still at the head of  *)
(* the queue and its callback done; it held no lock when it sent.           *)
C11_Witness ==
  /\ qLock = WorkerThread
  /\ wpc = "pop"
  /\ requests # <<>>
  /\ Head(requests) = request
  /\ Len(calls) = 1
  /\ dpc = "alive"

---------------------------------------------------------------------------
(* C12 *)

(* A request frame is written by this step *)
Transmits == sent' # sent

(* The worker takes a byte from the serial line in this step *)
ReadsByte == Len(serialRx') < Len(serialRx)

(* receive() returns in this step *)
ReceiveReturns == wpc = "receive" /\ wpc' = "deliver"

(* C12: a request frame is written only when micros() - MR_lastMicros has   *)
(* reached MR_interval; MR_lastMicros is set to now when a frame has been   *)
(* written, when a byte is read and when receive() returns; and the time    *)
(* elapsed since MR_lastMicros otherwise only grows with the clock, one     *)
(* unit at a time, in steps that neither write nor read.  So between the    *)
(* last byte sent or received and the next frame written lies at least      *)
(* MR_interval of silence.                                                  *)
C12_SendAfterSilence ==
  [][/\ Transmits => (sinceLast >= MR_interval /\ sinceLast' = 0)
     /\ ReadsByte => sinceLast' = 0
     /\ ReceiveReturns => sinceLast' = 0
     /\ (sinceLast' # sinceLast /\ sinceLast' # 0) =>
          /\ sinceLast' = sinceLast + 1
          /\ ~Transmits /\ ~ReadsByte
          /\ UNCHANGED <<wpc, state>>]_vars

(* The second request has just been written, after a transaction in which   *)
(* a reply was received.                                                    *)
C12_Witness ==
  /\ Len(sent) = 2
  /\ wpc = "receive"
  /\ state = "WAIT_INTERVAL"
  /\ sinceLast = 0
  /\ Len(calls) = 1
  /\ calls[1].fn = "onData"

---------------------------------------------------------------------------
(* C13 *)

(* receive() goes from IN_PACKET to DATA_READ in this step *)
FrameEnds == state = "IN_PACKET" /\ state' = "DATA_READ"

(* C13: in IN_PACKET every byte read is added to the one buffer, and the    *)
(* state machine goes to DATA_READ only with at least one byte received,    *)
(* no byte available and MR_interval passed since the last byte.            *)
C13_FrameEndAfterGap ==
  [][/\ (state = "IN_PACKET" /\ ReadsByte /\ ~truncated' ) =>
          buffer' = Append(buffer, Head(serialRx))
     /\ FrameEnds =>
          /\ bufferPtr >= 1
          /\ serialRx = <<>>
          /\ sinceLast >= MR_interval]_vars

---------------------------------------------------------------------------
(* C14 *)

(* The response of a transaction that succeeded is the received bytes in    *)
(* their order, without the last two.                                       *)
ResponseIsFrameWithoutCrc ==
  (wpc = "receive" /\ state = "FINISHED" /\ errorCode = SUCCESS) =>
    /\ Len(buffer) = bufferPtr
    /\ Len(response) = 1
    /\ response[1].msg = SubSeq(buffer, 1, bufferPtr - 2)
    /\ Len(response[1].msg) = bufferPtr - 2

(* Every callback carried the token of the request sent last before it, and *)
(* onData the server id and function code of the bytes it was given.        *)
CallbacksCarryToken ==
  \A i \in 1 .. Len(calls) :
    /\ calls[i].nsent >= 1
    /\ calls[i].token = sent[calls[i].nsent]
    /\ calls[i].fn = "onData" =>
         /\ calls[i].len = Len(calls[i].data)
         /\ calls[i].serverID = calls[i].data[1]
         /\ calls[i].functionCode = calls[i].data[2]

(* A callback is invoked in this step *)
Invokes == calls' # calls

(* C14: every callback gets the token of the request transmitted in its     *)
(* transaction, and onData gets the server id and function code of the      *)
(* reply and the received bytes in their order without the two CRC bytes,   *)
(* length = bytes received - 2.                                             *)
C14_TokenAndData ==
  /\ [](ResponseIsFrameWithoutCrc /\ CallbacksCarryToken)
  /\ [][/\ ReceiveReturns => response' = response
        /\ Invokes =>
             /\ wpc = "deliver"
             /\ Len(calls') = Len(calls) + 1
             /\ calls'[Len(calls')].token = request.token
             /\ request.token = sent[Len(sent)]
             /\ calls'[Len(calls')].data = response[1].msg]_vars

(* onData was called for the second request with its token and the five-    *)
(* byte reply without its CRC.                                              *)
C14_Witness ==
  /\ Len(sent) = 2
  /\ Len(calls) = 2
  /\ calls[2].fn = "onData"
  /\ calls[2].token = sent[2]
  /\ calls[2].data = <<1, 7, 5>>
  /\ calls[2].len = 3

---------------------------------------------------------------------------
(* C15 *)

(* No request is written to the line twice *)
NoRetransmit ==
  \A i, j \in 1 .. Len(sent) : i # j => sent[i] # sent[j]

(* The worker pops in this step *)
WorkerPops == wpc = "pop" /\ wpc' = "delete"

(* The pop of the worker removes one entry, the head, and that is the       *)
(* request of the transaction that has just ended.                          *)
PopsTheOneSent ==
  WorkerPops =>
    /\ requests # <<>>
    /\ requests' = Tail(requests)
    /\ Head(requests) = request
    /\ request.token = sent[Len(sent)]

---------------------------------------------------------------------------
(* C16 *)

(* The error codes receive() sets *)
ReceiveErrors ==
  {TIMEOUT, PACKET_LENGTH_ERROR, CRC_ERROR, SERVER_ID_MISMATCH, FC_MISMATCH}

(* r is the error frame of request req with error err: three bytes, server  *)
(* id, function code | 0x80, error code, and their CRC.                     *)
IsErrorFrame(r, req, err) ==
  /\ r.msg = <<req.serverID, (req.functionCode % 128) + 128, err>>
  /\ r.CRC = calcCRC(r.msg, 3)

(* r is the frame in buffer without its CRC, and the frame passed the four  *)
(* checks: length, CRC, server id, function code.                           *)
IsCheckedReply(r) ==
  /\ bufferPtr >= 5
  /\ r.msg = FrameMsg
  /\ r.CRC = FrameCrc
  /\ truncated \/ CrcOk
  /\ IdOk
  /\ FcOk

(* What receive() is about to return, and what it holds on the way there *)
OneOfTwoShapes ==
  /\ Len(response) <= 1
  /\ (wpc = "receive" /\ state = "ERROR_EXIT") =>
       /\ response = <<>>
       /\ errorCode \in ReceiveErrors
  /\ (wpc = "receive" /\ state = "FINISHED") =>
       /\ Len(response) = 1
       /\ IF errorCode = SUCCESS
          THEN IsCheckedReply(response[1])
          ELSE /\ errorCode \in ReceiveErrors
               /\ IsErrorFrame(response[1], request, errorCode)
  /\ (wpc = "deliver") =>
       /\ Len(response) = 1
       /\ \/ \E err \in ReceiveErrors : IsErrorFrame(response[1], request, err)
          \/ /\ Len(response[1].msg) >= 3
             /\ response[1].msg[1] = request.serverID
             /\ response[1].msg[2] % 128 = request.functionCode

(* C16: receive() returns a response, never nullptr, that is either the     *)
(* received frame without CRC that passed the checks of length, CRC, server *)
(* id and function code, or the error frame (server id of the request, its  *)
(* function code | 0x80, errorCode); errorCode is set once, by the first    *)
(* error found; and ERROR_EXIT is entered without a response and left with  *)
(* the error frame.                                                         *)
C16_ReplyOrErrorFrame ==
  /\ []OneOfTwoShapes
  /\ [][/\ (errorCode' # errorCode /\ errorCode' # SUCCESS) =>
             (errorCode = SUCCESS /\ state' = "ERROR_EXIT")
        /\ ReceiveReturns => (state = "FINISHED" /\ response' = response)]_vars

(* A reply with a valid CRC from the wrong server was received: receive()   *)
(* is about to return the error frame of SERVER_ID_MISMATCH.                *)
C16_Witness ==
  /\ wpc = "receive"
  /\ state = "FINISHED"
  /\ bufferPtr >= 5
  /\ CrcOk /\ ~IdOk
  /\ Len(response) = 1
  /\ IsErrorFrame(response[1], request, SERVER_ID_MISMATCH)

---------------------------------------------------------------------------
(* C17 *)

(* The receive buffer over a long frame.  Only the counters are kept: c is  *)
(* <<bufferPtr, bufferBlocks, defined>>, defined while every store and      *)
(* every copy stayed inside allocated storage.                              *)

(* new uint8_t[bufferBlocks * BUFBLOCKSIZE]: the size allocated *)
allocated(blocks) == blocks * BUFBLOCKSIZE

(* memcpy(temp, buffer, (bufferBlocks - 1) * BUFBLOCKSIZE): the int is      *)
(* converted to size_t, 32 bits wide.  The size copied is given in blocks   *)
(* of BUFBLOCKSIZE = 2^7 bytes: (bufferBlocks - 1) modulo 2^(32 - 7).       *)
memcpyBlocks(blocks) == (blocks - 1) % (2 ^ 25)

(* buffer[bufferPtr++] = MR_serial.read(); if (bufferPtr >= bufferBlocks *  *)
(* BUFBLOCKSIZE) { bufferBlocks++; temp = new ...; memcpy(...); }           *)
(* bufferPtr is a uint16_t, bufferBlocks a uint8_t.  Nothing is known of    *)
(* the counters once a store or a copy went outside allocated storage.      *)
storeByte(c) ==
  LET ptr == (c[1] + 1) % 65536
      full == ptr >= c[2] * BUFBLOCKSIZE
      blocks == IF full THEN (c[2] + 1) % 256 ELSE c[2]
  IN  IF ~c[3]
      THEN c
      ELSE <<ptr,
             blocks,
             /\ c[1] < allocated(c[2])
             /\ full => memcpyBlocks(blocks) <= Min(blocks, c[2])>>

(* F twice, the value in between computed once *)
Twice(F(_), c) == CHOOSE r \in {F(d) : d \in {F(c)}} : TRUE

(* while (MR_serial.available()) over 2, 4, ... 128 = BUFBLOCKSIZE bytes *)
store2(c) == Twice(storeByte, c)
store4(c) == Twice(store2, c)
store8(c) == Twice(store4, c)
store16(c) == Twice(store8, c)
store32(c) == Twice(store16, c)
store64(c) == Twice(store32, c)
store128(c) == Twice(store64, c)

(* while (MR_serial.available()) over k bytes, k one or BUFBLOCKSIZE *)
storeBytes(c, k) == IF k = 1 THEN storeByte(c) ELSE store128(c)

(* IN_PACKET with a line that does not pause: the while loop reads the k    *)
(* bytes that are there, and the next byte is there when it looks again.    *)
(* The bytes themselves are not kept.  A store or copy outside allocated    *)
(* storage is undefined.                                                    *)
R_InPacket_Stream(k) ==
  /\ wpc = "receive"
  /\ state = "IN_PACKET"
  /\ serialRx # <<>>
  /\ LET c == storeBytes(<<bufferPtr, bufferBlocks, TRUE>>, k)
     IN  /\ bufferPtr' = c[1]
         /\ bufferBlocks' = c[2]
         /\ wpc' = IF c[3] THEN wpc ELSE "undefined"
  /\ truncated' = TRUE
  /\ sinceLast' = 0
  /\ UNCHANGED <<cfgVars, requests, qLock, prodVars, request, response, state,
                 buffer, errorCode, serialRx, sinceTimeOut, logVars, deletes,
                 dpc>>

(* receive() has found the first byte of a reply to request 1 and enters    *)
(* IN_PACKET.                                                               *)
InitStream ==
  /\ onData = TRUE
  /\ onError = TRUE
  /\ baud = 9600
  /\ bpc = "done"
  /\ intervalMicros = clampInterval(baudInterval(baud))
  /\ requests = <<RTURequest(1, 7, 1)>>
  /\ qLock = Free
  /\ messageCount = 1
  /\ ppc = [p \in Producers |-> "idle"]
  /\ preq = [p \in Producers |-> NoRequest]
  /\ created = 1
  /\ returned = {[token |-> 1, rc |-> SUCCESS, size |-> 0]}
  /\ accepted = <<1>>
  /\ wpc = "receive"
  /\ request = RTURequest(1, 7, 1)
  /\ response = <<>>
  /\ state = "IN_PACKET"
  /\ buffer = <<>>
  /\ bufferPtr = 0
  /\ bufferBlocks = 1
  /\ truncated = FALSE
  /\ errorCode = SUCCESS
  /\ serialRx = <<0>>
  /\ sinceLast = 0
  /\ sinceTimeOut = MR_timeoutValue
  /\ sent = <<1>>
  /\ calls = <<>>
  /\ backlog = FALSE
  /\ deletes = [t \in Tokens |-> 0]
  /\ dpc = "alive"

(* The bytes read by one pass of the while loop: one, or a block's worth *)
Bursts == {1, BUFBLOCKSIZE}

NextStream == \E k \in Bursts : R_InPacket_Stream(k)

SpecStream == InitStream /\ [][NextStream]_vars

(* C17: while receive() gathers a frame, of whatever length, every byte is  *)
(* stored inside the allocated buffer (bufferPtr < bufferBlocks *           *)
(* BUFBLOCKSIZE before the store) and every growth copies the bytes stored  *)
(* so far into storage one block larger.                                    *)
C17_GrowsWithoutLoss ==
  state = "IN_PACKET" =>
    /\ wpc # "undefined"
    /\ bufferPtr < bufferBlocks * BUFBLOCKSIZE
    /\ bufferBlocks = (bufferPtr \div BUFBLOCKSIZE) + 1

---------------------------------------------------------------------------
(* C18 *)

(* The baud rates of the line *)
Bauds == {300, 9600, 40000, 40001, 115200}

(* The client constructed (MR_interval(2000)), begin() not yet called, no   *)
(* worker task yet.                                                         *)
InitBegin ==
  /\ onData \in BOOLEAN
  /\ onError \in BOOLEAN
  /\ baud \in Bauds
  /\ bpc = "constructed"
  /\ intervalMicros = 2000
  /\ requests = <<>>
  /\ qLock = Free
  /\ messageCount = 0
  /\ ppc = [p \in Producers |-> "idle"]
  /\ preq = [p \in Producers |-> NoRequest]
  /\ created = 0
  /\ returned = {}
  /\ accepted = <<>>
  /\ wpc = "no task"
  /\ request = NoRequest
  /\ response = <<>>
  /\ state = "WAIT_INTERVAL"
  /\ buffer = <<>>
  /\ bufferPtr = 0
  /\ bufferBlocks = 1
  /\ truncated = FALSE
  /\ errorCode = SUCCESS
  /\ serialRx = <<>>
  /\ sinceLast = 0
  /\ sinceTimeOut = 0
  /\ sent = <<>>
  /\ calls = <<>>
  /\ backlog = FALSE
  /\ deletes = [t \in Tokens |-> 0]
  /\ dpc = "alive"

(* begin(): xTaskCreatePinnedToCore(handleConnection, ...): the worker task *)
(* exists and can run.                                                      *)
B_CreateTask ==
  /\ bpc = "constructed"
  /\ bpc' = "created"
  /\ wpc' = "poll"
  /\ UNCHANGED <<onData, onError, baud, intervalMicros, requests, qLock,
                 prodVars, request, response, rxVars, envVars, logVars,
                 deletes, dpc>>

(* begin(): MR_interval = 40000000UL / MR_serial.baudRate() *)
B_Compute ==
  /\ bpc = "created"
  /\ intervalMicros' = baudInterval(baud)
  /\ bpc' = "computed"
  /\ UNCHANGED <<onData, onError, baud, requests, qLock, prodVars, wpc,
                 request, response, rxVars, envVars, logVars, deletes, dpc>>

(* begin(): if (MR_interval < 1000) MR_interval = 1000; and begin() returns *)
B_Clamp ==
  /\ bpc = "computed"
  /\ intervalMicros' = clampInterval(intervalMicros)
  /\ bpc' = "done"
  /\ UNCHANGED <<onData, onError, baud, requests, qLock, prodVars, wpc,
                 request, response, rxVars, envVars, logVars, deletes, dpc>>

(* The client from its construction: begin() is called, a caller submits    *)
(* requests before, while and after that.                                   *)
NextBegin ==
  \/ B_CreateTask \/ B_Compute \/ B_Clamp
  \/ SeqSubmit \/ SeqLock \/ SeqPush
  \/ Worker
  \/ Tick
  \/ Bus

SpecBegin == InitBegin /\ [][NextBegin]_vars

(* max(1000, 40000000 / baud) *)
IntervalOfBaud ==
  IF 40000000 \div baud > 1000 THEN 40000000 \div baud ELSE 1000

(* The worker is in a transaction: in send() or in receive() *)
InTransaction == wpc \in {"send", "receive", "gap"}

(* C18: once begin() has returned MR_interval is max(1000, 40000000 / baud) *)
(* microseconds; only begin() changes it; and it has that value whenever    *)
(* the worker is in a transaction.                                          *)
C18_IntervalFromBaud ==
  /\ bpc = "done" => intervalMicros = IntervalOfBaud
  /\ InTransaction => intervalMicros = IntervalOfBaud

---------------------------------------------------------------------------
(* C19 *)

(* The worker is transmitting its request, receiving the reply to it or     *)
(* delivering the callback for it.                                          *)
WorkerUsesRequest == wpc \in {"send", "receive", "gap", "deliver"}

(* C19: no request is deleted twice, the request the worker is              *)
(* transmitting, awaiting the reply to or delivering has not been deleted,  *)
(* and the worker never pops from an empty queue; also with the destructor  *)
(* running at any moment of a transaction.                                  *)
C19_ReleasedOnce ==
  /\ \A t \in Tokens : deletes[t] <= 1
  /\ WorkerUsesRequest => deletes[request.token] = 0
  /\ wpc # "undefined"

---------------------------------------------------------------------------
(* C20 *)

(* The worker is in a transaction: from the send to the pop *)
HoldsRequest == wpc \in {"send", "receive", "gap", "deliver", "lock", "pop"}

(* The worker starts a transaction in this step: it reads the head and      *)
(* leaves the queue as it is.                                               *)
PeeksOnly ==
  wpc = "poll" /\ wpc' = "send" =>
    /\ requests' = requests
    /\ request' = Head(requests)

(* The request of the transaction is the head of the queue *)
OccupiesHead == HoldsRequest => requests # <<>> /\ Head(requests) = request

(* A submission during a transaction that finds MR_qLimit entries, the      *)
(* in-flight one counted, is turned down with REQUEST_QUEUE_FULL.           *)
CountsTowardLimit ==
  HoldsRequest /\ created' # created /\ Len(requests) >= MR_qLimit =>
    /\ ppc' = ppc
    /\ requests' = requests
    /\ [token |-> created', rc |-> REQUEST_QUEUE_FULL, size |-> Len(requests)]
         \in returned'

(* During a transaction the queue changes by an append behind the           *)
(* in-flight request or by the pop of the worker.                           *)
AppendsBehind ==
  HoldsRequest /\ requests' # requests =>
    \/ WorkerPops
    \/ /\ Len(requests') = Len(requests) + 1
       /\ SubSeq(requests', 1, Len(requests)) = requests

(* C20: the worker peeks the head when it starts a transaction and pops     *)
(* after the callback; in between the in-flight request is the head of the  *)
(* queue and counts toward MR_qLimit, submissions only append behind it,    *)
(* and the entry popped is the request that was transmitted.                *)
C20_HeadStaysQueued ==
  /\ []OccupiesHead
  /\ [][PeeksOnly]_vars
  /\ [][CountsTowardLimit]_vars
  /\ [][AppendsBehind]_vars
  /\ [][WorkerPops => AfterCallback /\ Head(requests) = request
                        /\ request.token = sent[Len(sent)]]_vars

(* The worker is in the callback of the head, another request was appended  *)
(* behind it during the transaction.                                        *)
C20_Witness ==
  /\ wpc = "deliver"
  /\ Len(requests) = 2
  /\ Head(requests) = request
  /\ requests[2].token # request.token
  /\ request.token = sent[Len(sent)]

---------------------------------------------------------------------------
(* C21 *)

(* The running client as in Spec, with the history of the receive FIFO at   *)
(* each send.                                                               *)
NextLate ==
  \/ Submit \/ Lock \/ Push
  \/ W_SendLogged \/ Transact
  \/ Tick
  \/ Bus

SpecLate == Init /\ [][NextLate]_vars

(* The callback invoked in this step is onData: a reply is delivered *)
DeliversReply ==
  /\ Invokes
  /\ calls'[Len(calls')].fn = "onData"

(* C21: a reply that is delivered to the callback of a request holds no     *)
(* byte that had arrived before that request was written to the line: the   *)
(* receive FIFO is read in order and a reply has four bytes at least, so    *)
(* the FIFO was empty when the request was written.                         *)
C21_ReplyArrivedAfterSend ==
  [][DeliversReply => ~backlog]_vars
====
